---- MODULE Spec2Model ----
(***************************************************************************)
(* MainThreadTextEditors (src/vs/workbench/api/browser/mainThreadEditors.ts)*)
(* as a state machine: the bridge's fields, the host objects it reads and  *)
(* calls (editor service, group service, locator, editors, code editor     *)
(* service), and the messages it sends to the extension host proxy.        *)
(*                                                                         *)
(* Every action is one handler run to completion (the bridge is single     *)
(* threaded and no handler reads bridge state after an await).  Four       *)
(* report variables describe the last handler that ran: call (which one,   *)
(* with which arguments), outcome (what it returned), sent (the proxy      *)
(* notifications it issued, in order) and svcCalls (the calls it made on    *)
(* host services and editors, in order).                                   *)
(***************************************************************************)
EXTENDS Integers, Sequences, FiniteSets, TLC

\* ------------------------------------------------------------------ bounds
MaxBundles == 2
MaxVersion == 3
MaxInstances == 10
MaxOthers == 1

\* ------------------------------------------------------------- value sets
\* The editors the host knows about, and the ids a remote caller may pass.
Handles == {"e1", "e2"}
Ids == Handles \cup {"missing"}
Groups == {"g1", "g2"}
Columns == 0..(Cardinality(Groups) - 1)

\* JavaScript's null and undefined.
NULL == [null |-> TRUE]
Undefined == "undefined"
NoValue == [undefined |-> TRUE]

NoEditor == "none"

\* Resources: the text model of an editor, the original side of its diff view, and the
\* baseline a quick diff compares against.
ModelUri(h) == <<"file", h>>
OriginalUri(h) == <<"original", h>>
BaselineUri(label) == <<"baseline", label>>

\* IChange values (legacy line changes; an end line of 0 marks an empty range).
IChange(os, oe, ms, me) ==
  [originalStartLineNumber |-> os, originalEndLineNumber |-> oe,
   modifiedStartLineNumber |-> ms, modifiedEndLineNumber |-> me]
\* LineRangeMapping values.
LineRange(start, endExclusive) ==
  [startLineNumber |-> start, endLineNumberExclusive |-> endExclusive]
LineRangeMapping(original, modified) == [original |-> original, modified |-> modified]

\* The results a diff editor's computation can have (changes2).
DiffResults ==
  { [changes2 |-> c] : c \in { <<>>, << LineRangeMapping(LineRange(1, 2), LineRange(1, 3)) >> } }

\* The quick diffs of a quick-diff model and its recorded changes, each change under
\* the label of the quick diff that produced it.
QuickDiff(label, isSCM) ==
  [label |-> label, isSCM |-> isSCM, originalResource |-> BaselineUri(label)]
QuickDiffLists ==
  { << QuickDiff("Other", FALSE) >>,
    << QuickDiff("Other", FALSE), QuickDiff("Git", TRUE) >> }
LabelledChange(label, change) == [label |-> label, change |-> change]
LabelledChangeLists ==
  { <<>>,
    << LabelledChange("Other", IChange(1, 1, 1, 1)), LabelledChange("Git", IChange(2, 0, 3, 4)) >>,
    << LabelledChange("Git", IChange(5, 6, 5, 0)), LabelledChange("Other", IChange(1, 1, 1, 1)),
       LabelledChange("Git", IChange(2, 0, 3, 4)) >> }
DirtyDiffModels ==
  { [quickDiffs |-> q, changes |-> c] : q \in QuickDiffLists, c \in LabelledChangeLists }
\* What the dirtydiff contribution of a code editor caches.
DirtyDiffContributions == { [changes |-> c] : c \in { <<>>, << IChange(2, 0, 3, 4) >> } }
PropertyData == {"selections", "options"}

VARIABLES
  INSTANCE_COUNT,               \* static MainThreadTextEditors.INSTANCE_COUNT
  _instanceId,                  \* this bridge's id string, as a sequence of characters
  _toDispose,                   \* the DisposableStore: [isDisposed |-> BOOLEAN]
  _textEditorsListenersMap,     \* the object's entries in key order: [id, bundle], bundle
                                \* being the position of the bundle in listeners[id]
  _editorPositionData,          \* NULL or the last handle -> column mapping
  _registeredDecorationTypes,   \* the keys of the object in insertion order, each a character sequence
  visibleEditorPanes,           \* IEditorService.visibleEditorPanes
  groupsOrder,                  \* IEditorGroupsService: the groups in grid order
  locatorEditors,               \* the handles the locator resolves
  codeEditor,                   \* handle -> whether getCodeEditor() returns a surface
  modelVersion,                 \* handle -> version id of the editor's model
  modelContent,                 \* handle -> the edits applied to the model, in order
  diffEditors,                  \* ICodeEditorService.listDiffEditors: the handles whose code
                                \* editor is the original or modified side of a diff editor
  editorModel,                  \* handle -> whether getModel() of its (diff) editor is non-null
  diffComputationResult,        \* handle -> NULL or its diff editor's result, [changes2]
  dirtyDiffModel,               \* handle -> NoValue or the quick-diff model of its resource
  dirtyDiffContribution,        \* handle -> NoValue or the dirtydiff contribution, [changes]
  listeners,                    \* handle -> the live listener bundles on that editor, oldest first
  decorationTypes,              \* ICodeEditorService: the registered decoration type keys
  otherInstances,               \* the other live bridges: set of [instanceId, registered]
  call, outcome, sent, svcCalls,
  lastSentPos,                  \* history: the last mapping sent, NULL before the first
  lastSentDiff,                 \* history: handle -> the last diff information sent for it
  removedSince,                 \* history: handles removed and not added again
  issuedIds,                    \* history: the instance ids handed out so far, in order
  registeredSince               \* history: the raw keys registered on this bridge and not removed since

bridgeVars == <<_instanceId, _toDispose, _textEditorsListenersMap, _editorPositionData,
                _registeredDecorationTypes>>
diffEnv == <<diffEditors, editorModel, diffComputationResult, dirtyDiffModel,
             dirtyDiffContribution>>
hostVars == <<visibleEditorPanes, groupsOrder, locatorEditors, codeEditor, modelVersion,
              modelContent, diffEditors, editorModel, diffComputationResult, dirtyDiffModel,
              dirtyDiffContribution>>
decoVars == <<INSTANCE_COUNT, decorationTypes, otherInstances, issuedIds, registeredSince>>
vars == <<INSTANCE_COUNT, _instanceId, _toDispose, _textEditorsListenersMap,
          _editorPositionData, _registeredDecorationTypes, visibleEditorPanes, groupsOrder,
          locatorEditors, codeEditor, modelVersion, modelContent, diffEditors, editorModel,
          diffComputationResult, dirtyDiffModel, dirtyDiffContribution, listeners,
          decorationTypes, otherInstances, call, outcome, sent, svcCalls, lastSentPos,
          lastSentDiff, removedSince, issuedIds, registeredSince>>

\* ---------------------------------------------------------------- helpers
Range(s) == { s[i] : i \in DOMAIN s }
EmptyObject == [k \in {} |-> 0]
Put(obj, k, v) == [x \in (DOMAIN obj) \cup {k} |-> IF x = k THEN v ELSE obj[x]]
RemoveAt(s, i) == [j \in 1..(Len(s) - 1) |-> IF j < i THEN s[j] ELSE s[j + 1]]

\* A string-keyed object whose keys keep their insertion order (Object.keys, for..in):
\* a sequence of [id, bundle] entries with no id twice.
MapKeys(map) == { map[i].id : i \in DOMAIN map }
MapGet(map, id) == (CHOOSE i \in DOMAIN map : map[i].id = id)
MapPut(map, id, bundle) ==
  IF id \in MapKeys(map)
    THEN [i \in DOMAIN map |-> IF map[i].id = id THEN [id |-> id, bundle |-> bundle] ELSE map[i]]
    ELSE Append(map, [id |-> id, bundle |-> bundle])
MapDelete(map, id) == SelectSeq(map, LAMBDA entry : entry.id # id)

Call(op, id, arg) == [op |-> op, id |-> id, arg |-> arg]
Resolved(v) == [kind |-> "resolved", value |-> v]
Rejected(e) == [kind |-> "rejected", value |-> e]
NoOutcome == [kind |-> "void", value |-> NoValue]

\* A call made by a handler: on which kind of object, on which one, what, with what.
EditorCall(editor, method, arg) ==
  [target |-> "editor", on |-> editor, method |-> method, arg |-> arg]
ServiceCall(service, method, arg) ==
  [target |-> service, on |-> NoValue, method |-> method, arg |-> arg]
GroupCall(group, method, arg) ==
  [target |-> "group", on |-> group, method |-> method, arg |-> arg]
\* dispose(bundle) on the listeners of one map entry.
BundleDispose(entry) ==
  [target |-> "bundle", on |-> entry.id, method |-> "dispose", arg |-> entry.bundle]

PositionDataMsg(data) == [method |-> "$acceptEditorPositionData", id |-> Undefined, data |-> data]
PropertiesChangedMsg(id, data) ==
  [method |-> "$acceptEditorPropertiesChanged", id |-> id, data |-> data]
DiffInformationMsg(id, diff) ==
  [method |-> "$acceptEditorDiffInformation", id |-> id, data |-> diff]

\* base/common/objects.equals on two position-data values (null or a plain object).
objectEquals(one, other) ==
  IF one = NULL /\ other = NULL THEN TRUE
  ELSE IF one = NULL \/ other = NULL THEN FALSE
  ELSE /\ DOMAIN one = DOMAIN other
       /\ \A k \in DOMAIN one : one[k] = other[k]

\* isTextEditorDiffInformationEqual: undefined equals only undefined, two values are
\* equal when version, resources and change tuples agree.
isTextEditorDiffInformationEqual(diff1, diff2) ==
  IF diff1 = NoValue \/ diff2 = NoValue THEN diff1 = diff2
  ELSE /\ diff1.documentVersion = diff2.documentVersion
       /\ diff1.original = diff2.original
       /\ diff1.modified = diff2.modified
       /\ diff1.changes = diff2.changes

\* ------------------------------------------------------ position mapping
\* IMainThreadEditorLocator.findTextEditorIdFor: the id of the editor that matches the pane.
findTextEditorIdFor(editorPane) ==
  IF editorPane.ed \in locatorEditors THEN editorPane.ed ELSE Undefined

\* IMainThreadEditorLocator.getEditor
getEditor(id) == IF id \in locatorEditors THEN id ELSE Undefined

\* editorGroupToColumn: the index of the group in grid order.
editorGroupToColumn(group) ==
  (CHOOSE i \in DOMAIN groupsOrder : groupsOrder[i] = group) - 1

\* Variant of the loop in which the first pane of a handle decides its column.
PositionDataLoop_FirstWins(panes, result) ==
  LET ids == { findTextEditorIdFor(panes[i]) : i \in DOMAIN panes } \ {Undefined}
      FirstPane(id) == panes[CHOOSE i \in DOMAIN panes :
                               /\ findTextEditorIdFor(panes[i]) = id
                               /\ \A j \in 1..(i - 1) : findTextEditorIdFor(panes[j]) # id]
  IN [id \in (DOMAIN result) \cup ids |->
        IF id \in DOMAIN result THEN result[id]
        ELSE editorGroupToColumn(FirstPane(id).group)]

RECURSIVE PositionDataLoop(_, _)
PositionDataLoop(panes, result) ==
  IF panes = <<>> THEN result
  ELSE LET editorPane == Head(panes)
           id == findTextEditorIdFor(editorPane)
       IN PositionDataLoop(Tail(panes),
            IF id # Undefined
              THEN Put(result, id, editorGroupToColumn(editorPane.group))
              ELSE result)

_getTextEditorPositionData == PositionDataLoop(visibleEditorPanes, EmptyObject)

\* Variant of the condition in which a missing snapshot counts as the empty mapping.
UpdateSends_NullIsEmpty(snapshot, editorPositionData) ==
  ~objectEquals(IF snapshot = NULL THEN EmptyObject ELSE snapshot, editorPositionData)

\* The condition of _updateActiveAndVisibleTextEditors.
UpdateSends(snapshot, editorPositionData) == ~objectEquals(snapshot, editorPositionData)

_updateActiveAndVisibleTextEditors ==
  LET editorPositionData == _getTextEditorPositionData IN
  IF UpdateSends(_editorPositionData, editorPositionData)
    THEN /\ _editorPositionData' = editorPositionData
         /\ sent' = << PositionDataMsg(_editorPositionData') >>
    ELSE /\ sent' = <<>>
         /\ UNCHANGED _editorPositionData

\* A host event the constructor subscribed to through _toDispose: the handler runs
\* while the store is not disposed, and nothing of the bridge runs afterwards.
HostEvent(name) ==
  /\ call' = Call(name, Undefined, NoValue)
  /\ outcome' = NoOutcome
  /\ svcCalls' = <<>>
  /\ IF ~_toDispose.isDisposed
       THEN _updateActiveAndVisibleTextEditors
       ELSE sent' = <<>> /\ UNCHANGED _editorPositionData
  /\ lastSentPos' = IF sent' # <<>> THEN sent'[Len(sent')].data ELSE lastSentPos
  /\ UNCHANGED <<_instanceId, _toDispose, _textEditorsListenersMap,
                 _registeredDecorationTypes, listeners, removedSince, lastSentDiff>>
  /\ UNCHANGED hostVars
  /\ UNCHANGED decoVars

onDidVisibleEditorsChange == HostEvent("onDidVisibleEditorsChange")
onDidRemoveGroup == HostEvent("onDidRemoveGroup")
onDidMoveGroup == HostEvent("onDidMoveGroup")

\* --------------------------------------------------- diff information
\* lineRangeMappingFromChanges: an empty range (end line 0) becomes the empty range
\* after its start line, any other range gets an exclusive end.
lineRangeMappingFromChange(change) ==
  LineRangeMapping(
    IF change.originalEndLineNumber = 0
      THEN LineRange(change.originalStartLineNumber + 1, change.originalStartLineNumber + 1)
      ELSE LineRange(change.originalStartLineNumber, change.originalEndLineNumber + 1),
    IF change.modifiedEndLineNumber = 0
      THEN LineRange(change.modifiedStartLineNumber + 1, change.modifiedStartLineNumber + 1)
      ELSE LineRange(change.modifiedStartLineNumber, change.modifiedEndLineNumber + 1))
lineRangeMappingFromChanges(changes) ==
  [i \in DOMAIN changes |-> lineRangeMappingFromChange(changes[i])]

\* The filter of _getTextEditorDiffInformation and $getDiffInformation: whether a diff
\* editor lists the code editor as its original or modified side.
diffEditorOf(textEditor) == IF textEditor \in diffEditors THEN textEditor ELSE Undefined

\* Variant in which a diff editor without a computation result yields no value.
DiffEditorChanges_AbsentWithoutResult(textEditor, result) ==
  IF result = NULL THEN NoValue
  ELSE [original |-> OriginalUri(textEditor), modified |-> ModelUri(textEditor),
        changes |-> result.changes2]

\* getValue of the observable over diffEditor.onDidUpdateDiff (lines 156-164).
DiffEditorChanges(textEditor, result) ==
  LET changes == IF result = NULL THEN <<>> ELSE result.changes2
  IN [original |-> OriginalUri(textEditor), modified |-> ModelUri(textEditor),
      changes |-> changes]

\* quickDiffs.find(diff => diff.isSCM === true): the first such element, or undefined.
findSCM(quickDiffs) ==
  IF \E i \in DOMAIN quickDiffs : quickDiffs[i].isSCM = TRUE
    THEN quickDiffs[CHOOSE i \in DOMAIN quickDiffs :
                      /\ quickDiffs[i].isSCM = TRUE
                      /\ \A j \in 1..(i - 1) : quickDiffs[j].isSCM # TRUE]
    ELSE NoValue

\* getValue of the observable over dirtyDiffModel.onDidChange (lines 173-191).
DirtyDiffChanges_AllLabels(textEditor, model) ==
  LET scmQuickDiff == findSCM(model.quickDiffs) IN
  IF scmQuickDiff = NoValue THEN NoValue
  ELSE [original |-> scmQuickDiff.originalResource, modified |-> ModelUri(textEditor),
        changes |-> lineRangeMappingFromChanges(
                      [i \in DOMAIN model.changes |-> model.changes[i].change])]

DirtyDiffChanges(textEditor, model) ==
  LET scmQuickDiff == findSCM(model.quickDiffs) IN
  IF scmQuickDiff = NoValue THEN NoValue
  ELSE LET filtered == SelectSeq(model.changes,
                                 LAMBDA change : change.label = scmQuickDiff.label)
           changes == [i \in DOMAIN filtered |-> filtered[i].change]
       IN [original |-> scmQuickDiff.originalResource, modified |-> ModelUri(textEditor),
           changes |-> lineRangeMappingFromChanges(changes)]

\* editorChangesObs read through (lines 148-192), for an editor whose (diff) editor has
\* the model hasModel, whose diff editor has the computation result result and whose
\* resource has the quick-diff model dirty: no model, the diff editor's changes, or the
\* quick-diff model's changes.
editorChangesObs(textEditor, hasModel, result, dirty) ==
  IF ~hasModel THEN NoValue
  ELSE IF diffEditorOf(textEditor) # Undefined THEN DiffEditorChanges(textEditor, result)
  ELSE IF dirty = NoValue THEN NoValue
  ELSE DirtyDiffChanges(textEditor, dirty)

\* The compute function of derivedOpts (lines 197-222); version is the version id of
\* the model at that moment.
derivedOpts(textEditor, hasModel, version, result, dirty) ==
  LET editorChanges == editorChangesObs(textEditor, hasModel, result, dirty) IN
  IF ~hasModel \/ editorChanges = NoValue THEN NoValue
  ELSE [documentVersion |-> version,
        original |-> editorChanges.original,
        modified |-> editorChanges.modified,
        changes |-> [i \in DOMAIN editorChanges.changes |->
                       << editorChanges.changes[i].original.startLineNumber,
                          editorChanges.changes[i].original.endLineNumberExclusive,
                          editorChanges.changes[i].modified.startLineNumber,
                          editorChanges.changes[i].modified.endLineNumberExclusive >>]]

\* ------------------------------------------------------ listener bundles
\* Variant that builds the derived observable whether or not there is a code editor.
_getTextEditorDiffInformation_IgnoresSurface(textEditor) == "derived"

\* _getTextEditorDiffInformation: which observable handleTextEditorAdded subscribes to.
\* Without a code editor it is constObservable(undefined); otherwise the derived
\* observable over the editor's model and diff sources.
_getTextEditorDiffInformation(textEditor) ==
  IF ~codeEditor[textEditor] THEN "const" ELSE "derived"

\* What reading the observable yields at this moment.
ReadDiffInformation(obs, textEditor) ==
  IF obs = "const" THEN NoValue
  ELSE derivedOpts(textEditor, editorModel[textEditor], modelVersion[textEditor],
                   diffComputationResult[textEditor], dirtyDiffModel[textEditor])

\* The last diff information sent for each handle after the notifications msgs.
RECURSIVE LastDiffAfter(_, _)
LastDiffAfter(last, msgs) ==
  IF msgs = <<>> THEN last
  ELSE LastDiffAfter(
         IF Head(msgs).method = "$acceptEditorDiffInformation"
           THEN [last EXCEPT ![Head(msgs).id] = Head(msgs).data] ELSE last,
         Tail(msgs))

\* handleTextEditorAdded: a property listener and an autorun over the diff observable
\* are pushed into a new bundle, the autorun runs once at once, and the bundle takes
\* the map entry of the id (whatever was there before).
handleTextEditorAdded(textEditor) ==
  LET id == textEditor
      diffInformationObs == _getTextEditorDiffInformation(textEditor)
      diffInfo == ReadDiffInformation(diffInformationObs, textEditor)
  IN
  /\ ~_toDispose.isDisposed
  /\ Len(listeners[id]) < MaxBundles
  /\ call' = Call("handleTextEditorAdded", id, NoValue)
  /\ outcome' = NoOutcome
  /\ svcCalls' = <<>>
  /\ sent' = << DiffInformationMsg(id, diffInfo) >>
  /\ listeners' = [listeners EXCEPT
                     ![id] = Append(@, [obs |-> diffInformationObs, value |-> diffInfo])]
  /\ _textEditorsListenersMap' = MapPut(_textEditorsListenersMap, id, Len(listeners[id]) + 1)
  /\ removedSince' = removedSince \ {id}
  /\ lastSentDiff' = LastDiffAfter(lastSentDiff, sent')
  /\ UNCHANGED <<_instanceId, _toDispose, _editorPositionData, _registeredDecorationTypes,
                 lastSentPos>>
  /\ UNCHANGED hostVars
  /\ UNCHANGED decoVars

\* base/common/lifecycle.dispose(map[id]): the bundle of the entry is disposed, and
\* undefined (no entry) is let through without a call or an error.
disposeBundle(map, id) ==
  IF id \in MapKeys(map) THEN << BundleDispose(map[MapGet(map, id)]) >> ELSE <<>>

\* Variant of handleTextEditorRemoved that throws when the id has no bundle.
handleTextEditorRemoved_ThrowsOnMissing(id) ==
  /\ ~_toDispose.isDisposed
  /\ call' = Call("handleTextEditorRemoved", id, NoValue)
  /\ outcome' = IF id \in MapKeys(_textEditorsListenersMap) THEN NoOutcome
               ELSE [kind |-> "threw", value |-> NoValue]
  /\ sent' = <<>>
  /\ IF id \in MapKeys(_textEditorsListenersMap)
       THEN LET entry == _textEditorsListenersMap[MapGet(_textEditorsListenersMap, id)] IN
            /\ svcCalls' = disposeBundle(_textEditorsListenersMap, id)
            /\ listeners' = [listeners EXCEPT ![id] = RemoveAt(@, entry.bundle)]
            /\ _textEditorsListenersMap' = MapDelete(_textEditorsListenersMap, id)
       ELSE /\ svcCalls' = disposeBundle(_textEditorsListenersMap, id)
            /\ UNCHANGED <<listeners, _textEditorsListenersMap>>
  /\ removedSince' = removedSince \cup {id}
  /\ UNCHANGED <<_instanceId, _toDispose, _editorPositionData, _registeredDecorationTypes,
                 lastSentPos, lastSentDiff>>
  /\ UNCHANGED hostVars
  /\ UNCHANGED decoVars

\* handleTextEditorRemoved: dispose(undefined) and delete of a missing key do nothing.
handleTextEditorRemoved(id) ==
  /\ ~_toDispose.isDisposed
  /\ call' = Call("handleTextEditorRemoved", id, NoValue)
  /\ outcome' = NoOutcome
  /\ sent' = <<>>
  /\ IF id \in MapKeys(_textEditorsListenersMap)
       THEN LET entry == _textEditorsListenersMap[MapGet(_textEditorsListenersMap, id)] IN
            /\ svcCalls' = disposeBundle(_textEditorsListenersMap, id)
            /\ listeners' = [listeners EXCEPT ![id] = RemoveAt(@, entry.bundle)]
            /\ _textEditorsListenersMap' = MapDelete(_textEditorsListenersMap, id)
       ELSE /\ svcCalls' = disposeBundle(_textEditorsListenersMap, id)
            /\ UNCHANGED <<listeners, _textEditorsListenersMap>>
  /\ removedSince' = removedSince \cup {id}
  /\ UNCHANGED <<_instanceId, _toDispose, _editorPositionData, _registeredDecorationTypes,
                 lastSentPos, lastSentDiff>>
  /\ UNCHANGED hostVars
  /\ UNCHANGED decoVars

\* MainThreadTextEditor.onPropertiesChanged fires: every live property listener on the
\* editor forwards the data under the id it captured.
onPropertiesChanged(textEditor, data) ==
  /\ call' = Call("onPropertiesChanged", textEditor, data)
  /\ outcome' = NoOutcome
  /\ svcCalls' = <<>>
  /\ sent' = [i \in 1..Len(listeners[textEditor]) |-> PropertiesChangedMsg(textEditor, data)]
  /\ UNCHANGED <<listeners, removedSince, lastSentPos, lastSentDiff>>
  /\ UNCHANGED bridgeVars
  /\ UNCHANGED hostVars
  /\ UNCHANGED decoVars

\* The autoruns of the live bundles, oldest first: a derived observable whose new value
\* is equal to its last one (equalsFn) does not re-run its autorun.
\* Variant in which every recomputation re-runs the autorun (no equalsFn).
DiffSends_NoEqualsFn(bundles, id, diff) ==
  LET derivedOnes == SelectSeq(bundles, LAMBDA b : b.obs = "derived") IN
  [i \in DOMAIN derivedOnes |-> DiffInformationMsg(id, diff)]

RECURSIVE DiffSends(_, _, _)
DiffSends(bundles, id, diff) ==
  IF bundles = <<>> THEN <<>>
  ELSE LET b == Head(bundles) IN
       (IF b.obs = "derived" /\ ~isTextEditorDiffInformationEqual(b.value, diff)
          THEN << DiffInformationMsg(id, diff) >> ELSE <<>>)
       \o DiffSends(Tail(bundles), id, diff)

DiffUpdate(bundles, diff) ==
  [i \in DOMAIN bundles |->
     IF bundles[i].obs = "derived" /\ ~isTextEditorDiffInformationEqual(bundles[i].value, diff)
       THEN [bundles[i] EXCEPT !.value = diff] ELSE bundles[i]]

\* What an event of one of the sources of the derivation does: when the live bundles of
\* the editor are subscribed to the source, each derived observable recomputes from the
\* state the event leaves (diff is what it yields there) and its autorun runs when the
\* value is not equal to its last.
DiffSourceEvent(name, textEditor, arg, subscribed, diff) ==
  /\ call' = Call(name, textEditor, arg)
  /\ outcome' = NoOutcome
  /\ svcCalls' = <<>>
  /\ UNCHANGED <<visibleEditorPanes, groupsOrder, locatorEditors, codeEditor, modelVersion,
                 modelContent, diffEditors, dirtyDiffContribution>>
  /\ IF subscribed
       THEN /\ sent' = DiffSends(listeners[textEditor], textEditor, diff)
            /\ listeners' = [listeners EXCEPT ![textEditor] = DiffUpdate(@, diff)]
       ELSE /\ sent' = <<>>
            /\ UNCHANGED listeners
  /\ lastSentDiff' = LastDiffAfter(lastSentDiff, sent')
  /\ UNCHANGED <<removedSince, lastSentPos>>
  /\ UNCHANGED bridgeVars
  /\ UNCHANGED decoVars

\* onDidChangeModel of the diff editor or of the code editor: another model, or none, is
\* bound; dirty is what the quick-diff service has for the new model's resource, and a
\* diff editor has no computation result for its new model yet.
onDidChangeModel(textEditor, model, dirty) ==
  /\ model \/ editorModel[textEditor]
  /\ editorModel' = [editorModel EXCEPT ![textEditor] = model]
  /\ dirtyDiffModel' = [dirtyDiffModel EXCEPT ![textEditor] = IF model THEN dirty ELSE NoValue]
  /\ diffComputationResult' = [diffComputationResult EXCEPT ![textEditor] = NULL]
  /\ DiffSourceEvent("onDidChangeModel", textEditor, model, TRUE,
                     derivedOpts(textEditor, model, modelVersion[textEditor], NULL,
                                 IF model THEN dirty ELSE NoValue))

\* onDidUpdateDiff of the diff editor: its computation produced result.
onDidUpdateDiff(textEditor, result) ==
  /\ diffEditorOf(textEditor) # Undefined
  /\ editorModel[textEditor]
  /\ diffComputationResult' = [diffComputationResult EXCEPT ![textEditor] = result]
  /\ UNCHANGED <<editorModel, dirtyDiffModel>>
  /\ DiffSourceEvent("onDidUpdateDiff", textEditor, result, TRUE,
                     derivedOpts(textEditor, TRUE, modelVersion[textEditor], result,
                                 dirtyDiffModel[textEditor]))

\* onDidChange of the quick-diff model of the editor's resource; a bundle is subscribed
\* to it only through a plain code editor.
onDidChangeDirtyDiff(textEditor, model) ==
  /\ editorModel[textEditor]
  /\ dirtyDiffModel[textEditor] # NoValue
  /\ dirtyDiffModel' = [dirtyDiffModel EXCEPT ![textEditor] = model]
  /\ UNCHANGED <<editorModel, diffComputationResult>>
  /\ DiffSourceEvent("dirtyDiffModel.onDidChange", textEditor, model,
                     diffEditorOf(textEditor) = Undefined,
                     derivedOpts(textEditor, TRUE, modelVersion[textEditor],
                                 diffComputationResult[textEditor], model))

\* ------------------------------------------------------------ decorations
Digit(d) == <<"0", "1", "2", "3", "4", "5", "6", "7", "8", "9">>[d + 1]

\* String(n) for a positive integer.
RECURSIVE NumberToString(_)
NumberToString(n) == IF n < 10 THEN << Digit(n) >> ELSE NumberToString(n \div 10) \o << Digit(n % 10) >>

\* Variant of the key template without the separator.
NamespacedKey_NoSeparator(instanceId, key) == instanceId \o key

\* The template `${this._instanceId}-${key}`.
NamespacedKey(instanceId, key) == instanceId \o <<"-">> \o key

\* obj[key] = true on an object whose keys are kept in insertion order.
SetKey(keys, key) == IF key \in Range(keys) THEN keys ELSE Append(keys, key)
\* delete obj[key]
DeleteKey(keys, key) == SelectSeq(keys, LAMBDA k : k # key)

\* ICodeEditorService.removeDecorationType for each key of a sequence.
RemoveDecorationTypeCalls(keys) ==
  [i \in DOMAIN keys |-> ServiceCall("codeEditorService", "removeDecorationType", keys[i])]

\* ---------------------------------------------------------------- dispose
\* The forEach over Object.keys(_textEditorsListenersMap): what is left of the bundles.
DisposeBundles(map, ls) ==
  [h \in DOMAIN ls |->
     IF h \in MapKeys(map) THEN RemoveAt(ls[h], map[MapGet(map, h)].bundle) ELSE ls[h]]
BundleDisposeCalls(map) == [i \in DOMAIN map |-> BundleDispose(map[i])]

\* Variant of dispose() that keeps the registry object after the sweep.
dispose_KeepsRegistry ==
  /\ call' = Call("dispose", Undefined, NoValue)
  /\ outcome' = NoOutcome
  /\ sent' = <<>>
  /\ listeners' = DisposeBundles(_textEditorsListenersMap, listeners)
  /\ _textEditorsListenersMap' = <<>>
  /\ _toDispose' = [isDisposed |-> TRUE]
  /\ svcCalls' = BundleDisposeCalls(_textEditorsListenersMap)
                   \o RemoveDecorationTypeCalls(_registeredDecorationTypes)
  /\ decorationTypes' = decorationTypes \ Range(_registeredDecorationTypes)
  /\ UNCHANGED <<_instanceId, _editorPositionData, _registeredDecorationTypes, lastSentPos, lastSentDiff,
                 removedSince, INSTANCE_COUNT, otherInstances, issuedIds, registeredSince>>
  /\ UNCHANGED hostVars

\* dispose(): the bundles in the map, the map, the store, then the registry sweep.
dispose ==
  /\ call' = Call("dispose", Undefined, NoValue)
  /\ outcome' = NoOutcome
  /\ sent' = <<>>
  /\ listeners' = DisposeBundles(_textEditorsListenersMap, listeners)
  /\ _textEditorsListenersMap' = <<>>
  /\ _toDispose' = [isDisposed |-> TRUE]
  /\ svcCalls' = BundleDisposeCalls(_textEditorsListenersMap)
                   \o RemoveDecorationTypeCalls(_registeredDecorationTypes)
  /\ decorationTypes' = decorationTypes \ Range(_registeredDecorationTypes)
  /\ _registeredDecorationTypes' = <<>>
  /\ registeredSince' = {}
  /\ UNCHANGED <<_instanceId, _editorPositionData, lastSentPos, lastSentDiff, removedSince,
                 INSTANCE_COUNT, otherInstances, issuedIds>>
  /\ UNCHANGED hostVars

\* -------------------------------------------------------- host environment
\* The editor service shows another set of panes (at most one per group).
HostSetVisiblePanes(panes) ==
  /\ panes # visibleEditorPanes
  /\ visibleEditorPanes' = panes
  /\ call' = Call("host:visiblePanes", Undefined, NoValue)
  /\ outcome' = NoOutcome /\ sent' = <<>> /\ svcCalls' = <<>>
  /\ UNCHANGED <<groupsOrder, locatorEditors, codeEditor, modelVersion, modelContent,
                 diffEnv, listeners, lastSentPos, lastSentDiff, removedSince>>
  /\ UNCHANGED bridgeVars
  /\ UNCHANGED decoVars

\* The group service reorders the grid.
HostSetGroupsOrder(order) ==
  /\ order # groupsOrder
  /\ groupsOrder' = order
  /\ call' = Call("host:groupsOrder", Undefined, NoValue)
  /\ outcome' = NoOutcome /\ sent' = <<>> /\ svcCalls' = <<>>
  /\ UNCHANGED <<visibleEditorPanes, locatorEditors, codeEditor, modelVersion, modelContent,
                 diffEnv, listeners, lastSentPos, lastSentDiff, removedSince>>
  /\ UNCHANGED bridgeVars
  /\ UNCHANGED decoVars

\* The locator's owner learns of an editor or forgets one.
HostSetLocatorEditors(known) ==
  /\ known # locatorEditors
  /\ locatorEditors' = known
  /\ call' = Call("host:locator", Undefined, NoValue)
  /\ outcome' = NoOutcome /\ sent' = <<>> /\ svcCalls' = <<>>
  /\ UNCHANGED <<visibleEditorPanes, groupsOrder, codeEditor, modelVersion, modelContent,
                 diffEnv, listeners, lastSentPos, lastSentDiff, removedSince>>
  /\ UNCHANGED bridgeVars
  /\ UNCHANGED decoVars

\* The text of the editor's model changes: its version id grows.  The bridge has no
\* subscription to it.
HostChangeModelContent(textEditor) ==
  /\ editorModel[textEditor]
  /\ modelVersion[textEditor] < MaxVersion
  /\ modelVersion' = [modelVersion EXCEPT ![textEditor] = @ + 1]
  /\ call' = Call("host:modelContent", textEditor, NoValue)
  /\ outcome' = NoOutcome /\ sent' = <<>> /\ svcCalls' = <<>>
  /\ UNCHANGED <<visibleEditorPanes, groupsOrder, locatorEditors, codeEditor, modelContent,
                 diffEnv, listeners, lastSentPos, lastSentDiff, removedSince>>
  /\ UNCHANGED bridgeVars
  /\ UNCHANGED decoVars

\* An editor that had no code editor gets one (getCodeEditor() starts returning it).
HostSetCodeEditor(textEditor) ==
  /\ ~codeEditor[textEditor]
  /\ codeEditor' = [codeEditor EXCEPT ![textEditor] = TRUE]
  /\ call' = Call("host:codeEditor", textEditor, NoValue)
  /\ outcome' = NoOutcome /\ sent' = <<>> /\ svcCalls' = <<>>
  /\ UNCHANGED <<visibleEditorPanes, groupsOrder, locatorEditors, modelVersion, modelContent,
                 diffEnv, listeners, lastSentPos, lastSentDiff, removedSince>>
  /\ UNCHANGED bridgeVars
  /\ UNCHANGED decoVars

RECURSIVE Perms(_)
Perms(S) == IF S = {} THEN { <<>> }
            ELSE UNION { { <<x>> \o p : p \in Perms(S \ {x}) } : x \in S }
\* The sequences of panes the editor service can report: one pane per shown group.
PaneLists ==
  UNION { { [i \in DOMAIN gs |-> [ed |-> eds[i], group |-> gs[i]]] :
              eds \in [DOMAIN gs -> Handles \cup {NoEditor}] } :
          gs \in UNION { Perms(G) : G \in SUBSET Groups } }

\* -------------------------------------------------------- remote commands
Payloads == {"p1"}
RawKeys == { <<"a">>, <<"0", "a">> }

\* base/common/errors.illegalArgument(name)
illegalArgument(name) == [error |-> "Illegal argument", argument |-> name]
\* The template `TextEditor(${id})`.
TextEditorName(id) == <<"TextEditor(", id, ")">>


\* What a command leaves alone when it only talks to the resolved editor.
CommandFrame ==
  /\ sent' = <<>>
  /\ UNCHANGED <<listeners, lastSentPos, lastSentDiff, removedSince>>
  /\ UNCHANGED bridgeVars
  /\ UNCHANGED <<visibleEditorPanes, groupsOrder, locatorEditors, codeEditor, diffEnv>>
  /\ UNCHANGED decoVars

\* The shape shared by $trySetSelections, $trySetDecorations, $trySetDecorationsFast,
\* $tryRevealRange and $trySetOptions: reject when the locator has no editor, else one
\* call on the editor and a resolved promise.
DelegateOrReject(op, id, callArg, method, methodArg) ==
  LET editor == getEditor(id) IN
  /\ ~_toDispose.isDisposed
  /\ call' = Call(op, id, callArg)
  /\ IF editor = Undefined
       THEN /\ outcome' = Rejected(illegalArgument(TextEditorName(id)))
            /\ svcCalls' = <<>>
       ELSE /\ svcCalls' = << EditorCall(editor, method, methodArg) >>
            /\ outcome' = Resolved(NoValue)
  /\ UNCHANGED <<modelVersion, modelContent>>
  /\ CommandFrame

trySetSelections(id, selections) ==
  DelegateOrReject("$trySetSelections", id, selections, "setSelections", selections)

trySetDecorations(id, key, ranges) ==
  DelegateOrReject("$trySetDecorations", id, [key |-> key, ranges |-> ranges],
                   "setDecorations",
                   [key |-> NamespacedKey(_instanceId, key), ranges |-> ranges])

trySetDecorationsFast(id, key, ranges) ==
  DelegateOrReject("$trySetDecorationsFast", id, [key |-> key, ranges |-> ranges],
                   "setDecorationsFast",
                   [key |-> NamespacedKey(_instanceId, key), ranges |-> ranges])

\* Variant of $tryRevealRange that treats a missing editor like $tryShowEditor does.
tryRevealRange_SilentNoOp(id, range) ==
  LET editor == getEditor(id) IN
  /\ ~_toDispose.isDisposed
  /\ call' = Call("$tryRevealRange", id, range)
  /\ IF editor = Undefined
       THEN /\ outcome' = Resolved(NoValue)
            /\ svcCalls' = <<>>
       ELSE /\ svcCalls' = << EditorCall(editor, "revealRange", range) >>
            /\ outcome' = Resolved(NoValue)
  /\ UNCHANGED <<modelVersion, modelContent>>
  /\ CommandFrame

tryRevealRange(id, range) ==
  DelegateOrReject("$tryRevealRange", id, range, "revealRange", range)

trySetOptions(id, options) ==
  DelegateOrReject("$trySetOptions", id, options, "setConfiguration", options)

\* MainThreadTextEditor.applyEdits: the edits are applied only when the expected
\* version is the model's version (and the editor has a surface to edit through).
applyEdits(editor, versionIdCheck) ==
  modelVersion[editor] = versionIdCheck /\ codeEditor[editor]

\* Variant of $tryApplyEdits that hands the editor the model's own version.
tryApplyEdits_IgnoresVersion(id, modelVersionId, edits) ==
  LET editor == getEditor(id) IN
  /\ ~_toDispose.isDisposed
  /\ call' = Call("$tryApplyEdits", id, [modelVersionId |-> modelVersionId, edits |-> edits])
  /\ IF editor = Undefined
       THEN /\ outcome' = Rejected(illegalArgument(TextEditorName(id)))
            /\ svcCalls' = <<>>
            /\ UNCHANGED <<modelVersion, modelContent>>
       ELSE /\ svcCalls' = << EditorCall(editor, "applyEdits",
                                [modelVersionId |-> modelVersion[editor], edits |-> edits]) >>
            /\ outcome' = Resolved(applyEdits(editor, modelVersion[editor]))
            /\ IF applyEdits(editor, modelVersion[editor])
                 THEN /\ modelVersion[editor] < MaxVersion
                      /\ modelVersion' = [modelVersion EXCEPT ![editor] = @ + 1]
                      /\ modelContent' = [modelContent EXCEPT ![editor] = Append(@, edits)]
                 ELSE UNCHANGED <<modelVersion, modelContent>>
  /\ CommandFrame

tryApplyEdits(id, modelVersionId, edits) ==
  LET editor == getEditor(id) IN
  /\ ~_toDispose.isDisposed
  /\ call' = Call("$tryApplyEdits", id, [modelVersionId |-> modelVersionId, edits |-> edits])
  /\ IF editor = Undefined
       THEN /\ outcome' = Rejected(illegalArgument(TextEditorName(id)))
            /\ svcCalls' = <<>>
            /\ UNCHANGED <<modelVersion, modelContent>>
       ELSE /\ svcCalls' = << EditorCall(editor, "applyEdits",
                                [modelVersionId |-> modelVersionId, edits |-> edits]) >>
            /\ outcome' = Resolved(applyEdits(editor, modelVersionId))
            /\ IF applyEdits(editor, modelVersionId)
                 THEN /\ modelVersion[editor] < MaxVersion
                      /\ modelVersion' = [modelVersion EXCEPT ![editor] = @ + 1]
                      /\ modelContent' = [modelContent EXCEPT ![editor] = Append(@, edits)]
                 ELSE UNCHANGED <<modelVersion, modelContent>>
  /\ CommandFrame

\* MainThreadTextEditor.insertSnippet: whether the snippet went in is the editor's
\* business; when it did, the model changed.
tryInsertSnippet(id, modelVersionId, template) ==
  LET editor == getEditor(id) IN
  /\ ~_toDispose.isDisposed
  /\ call' = Call("$tryInsertSnippet", id,
                  [modelVersionId |-> modelVersionId, template |-> template])
  /\ IF editor = Undefined
       THEN /\ outcome' = Rejected(illegalArgument(TextEditorName(id)))
            /\ svcCalls' = <<>>
            /\ UNCHANGED <<modelVersion, modelContent>>
       ELSE /\ svcCalls' = << EditorCall(editor, "insertSnippet",
                                [modelVersionId |-> modelVersionId, template |-> template]) >>
            /\ \E inserted \in BOOLEAN :
                 /\ outcome' = Resolved(inserted)
                 /\ IF inserted
                      THEN /\ modelVersion[editor] < MaxVersion
                           /\ modelVersion' = [modelVersion EXCEPT ![editor] = @ + 1]
                           /\ modelContent' = [modelContent EXCEPT ![editor] = Append(@, template)]
                      ELSE UNCHANGED <<modelVersion, modelContent>>
  /\ CommandFrame

\* ------------------------------------------------------- show / hide editor
\* What is left alone by the two commands that talk to the editor service.
ViewFrame ==
  /\ sent' = <<>>
  /\ UNCHANGED <<listeners, lastSentPos, lastSentDiff, removedSince>>
  /\ UNCHANGED bridgeVars
  /\ UNCHANGED <<groupsOrder, locatorEditors, codeEditor, modelVersion, modelContent,
                 diffEnv>>
  /\ UNCHANGED decoVars

\* A promise of the host: it resolves, or rejects for reasons of the host's own.
HostPromise(failure) == { Resolved(NoValue), Rejected([error |-> failure, argument |-> NoValue]) }

\* $tryShowEditor: openEditor on the resource of the editor's model, in the group of
\* the column.  What the editor service shows afterwards is up to the service.
tryShowEditor(id, position) ==
  LET mainThreadEditor == getEditor(id) IN
  /\ ~_toDispose.isDisposed
  /\ call' = Call("$tryShowEditor", id, position)
  /\ IF mainThreadEditor # Undefined
       THEN /\ svcCalls' = << ServiceCall("editorService", "openEditor",
                                [resource |-> <<"model", mainThreadEditor>>,
                                 preserveFocus |-> FALSE, column |-> position]) >>
            /\ outcome' \in HostPromise("openEditor")
            /\ visibleEditorPanes' \in PaneLists
       ELSE /\ svcCalls' = <<>>
            /\ outcome' = Resolved(NoValue)
            /\ UNCHANGED visibleEditorPanes
  /\ ViewFrame

\* MainThreadTextEditor.matches(editorPane)
matches(mainThreadEditor, editorPane) == editorPane.ed = mainThreadEditor

\* The loop of $tryHideEditor: the position of the pane it closes, 0 when it closes none.
RECURSIVE HideLoop(_, _, _)
HideLoop(mainThreadEditor, editorPanes, i) ==
  IF i > Len(editorPanes) THEN 0
  ELSE IF matches(mainThreadEditor, editorPanes[i]) THEN i
  ELSE HideLoop(mainThreadEditor, editorPanes, i + 1)

CloseEditorCall(editorPanes, i) ==
  GroupCall(editorPanes[i].group, "closeEditor", [pane |-> i])

\* Variant of $tryHideEditor whose loop goes on after closing a pane.
tryHideEditor_NoReturn(id) ==
  LET mainThreadEditor == getEditor(id)
      editorPanes == visibleEditorPanes
      hits == { i \in DOMAIN editorPanes : matches(mainThreadEditor, editorPanes[i]) }
  IN
  /\ ~_toDispose.isDisposed
  /\ call' = Call("$tryHideEditor", id, NoValue)
  /\ IF mainThreadEditor # Undefined /\ hits # {}
       THEN /\ svcCalls' = SelectSeq([i \in DOMAIN editorPanes |->
                                        IF i \in hits THEN CloseEditorCall(editorPanes, i)
                                        ELSE ServiceCall("none", "none", NoValue)],
                                     LAMBDA c : c.method = "closeEditor")
            /\ outcome' \in HostPromise("closeEditor")
            /\ visibleEditorPanes' = SelectSeq(editorPanes,
                                               LAMBDA p : ~matches(mainThreadEditor, p))
       ELSE /\ svcCalls' = <<>>
            /\ outcome' = Resolved(NoValue)
            /\ UNCHANGED visibleEditorPanes
  /\ ViewFrame

\* $tryHideEditor: closeEditor on the first visible pane the editor matches; the group
\* closes the pane or keeps it (a veto).
tryHideEditor(id) ==
  LET mainThreadEditor == getEditor(id)
      editorPanes == visibleEditorPanes
      hit == IF mainThreadEditor # Undefined THEN HideLoop(mainThreadEditor, editorPanes, 1)
             ELSE 0
  IN
  /\ ~_toDispose.isDisposed
  /\ call' = Call("$tryHideEditor", id, NoValue)
  /\ IF hit # 0
       THEN /\ svcCalls' = << CloseEditorCall(editorPanes, hit) >>
            /\ outcome' \in HostPromise("closeEditor")
            /\ visibleEditorPanes' \in { editorPanes, RemoveAt(editorPanes, hit) }
       ELSE /\ svcCalls' = <<>>
            /\ outcome' = Resolved(NoValue)
            /\ UNCHANGED visibleEditorPanes
  /\ ViewFrame

\* ----------------------------------------------------------- show document
\* new Error(message)
Error(message) == [error |-> "Error", argument |-> << message >>]

\* IMainThreadEditorLocator.getIdOfCodeEditor
getIdOfCodeEditor(codeEditorOf) ==
  IF codeEditorOf \in locatorEditors THEN codeEditorOf ELSE Undefined

\* What openEditor can come to: it rejects, it resolves with no editor, or with an
\* editor whose control is no code editor, the code editor of one of the editors, or a
\* code editor the locator has no id for.
OpenEditorResults ==
  { [kind |-> "rejects", control |-> NoEditor], [kind |-> "undefined", control |-> NoEditor] }
    \cup { [kind |-> "editor", control |-> c] : c \in Handles \cup {NoEditor, "other"} }

\* Variant of $tryShowTextDocument that fails when openEditor returns no editor.
tryShowTextDocument_RejectsNoEditor(resource, position, opened) ==
  /\ ~_toDispose.isDisposed
  /\ call' = Call("$tryShowTextDocument", Undefined, [resource |-> resource, opened |-> opened])
  /\ svcCalls' = << ServiceCall("editorService", "openEditor",
                       [resource |-> resource, override |-> "EXCLUSIVE_ONLY",
                        column |-> position]) >>
  /\ outcome' =
       IF opened.kind = "rejects" THEN Rejected([error |-> "openEditor", argument |-> NoValue])
       ELSE IF opened.kind = "undefined" THEN Rejected(Error("No editor"))
       ELSE LET codeEditorOf == opened.control IN
            IF codeEditorOf = NoEditor THEN Resolved(NoValue)
            ELSE IF getIdOfCodeEditor(codeEditorOf) = Undefined THEN Resolved(NoValue)
            ELSE Resolved(getIdOfCodeEditor(codeEditorOf))
  /\ visibleEditorPanes' \in PaneLists
  /\ ViewFrame

\* $tryShowTextDocument
tryShowTextDocument(resource, position, opened) ==
  /\ ~_toDispose.isDisposed
  /\ call' = Call("$tryShowTextDocument", Undefined, [resource |-> resource, opened |-> opened])
  /\ svcCalls' = << ServiceCall("editorService", "openEditor",
                       [resource |-> resource, override |-> "EXCLUSIVE_ONLY",
                        column |-> position]) >>
  /\ outcome' =
       IF opened.kind = "rejects" THEN Rejected([error |-> "openEditor", argument |-> NoValue])
       ELSE IF opened.kind = "undefined" THEN Resolved(NoValue)
       ELSE LET codeEditorOf == opened.control IN
            IF codeEditorOf = NoEditor THEN Resolved(NoValue)
            ELSE IF getIdOfCodeEditor(codeEditorOf) = Undefined THEN Resolved(NoValue)
            ELSE Resolved(getIdOfCodeEditor(codeEditorOf))
  /\ visibleEditorPanes' \in PaneLists
  /\ ViewFrame

\* ------------------------------------------------------- $getDiffInformation
\* The legacy line change of a line range mapping (an empty range is the line before it
\* with end line 0), as IDiffEditor.getLineChanges reports the computation result.
lineChangeFromMapping(mapping) ==
  IChange(
    IF mapping.original.startLineNumber = mapping.original.endLineNumberExclusive
      THEN mapping.original.startLineNumber - 1 ELSE mapping.original.startLineNumber,
    IF mapping.original.startLineNumber = mapping.original.endLineNumberExclusive
      THEN 0 ELSE mapping.original.endLineNumberExclusive - 1,
    IF mapping.modified.startLineNumber = mapping.modified.endLineNumberExclusive
      THEN mapping.modified.startLineNumber - 1 ELSE mapping.modified.startLineNumber,
    IF mapping.modified.startLineNumber = mapping.modified.endLineNumberExclusive
      THEN 0 ELSE mapping.modified.endLineNumberExclusive - 1)

\* IDiffEditor.getLineChanges(): null while there is no computation result.
getLineChanges(diffEditor) ==
  LET result == diffComputationResult[diffEditor] IN
  IF result = NULL THEN NULL
  ELSE [lineChanges |-> [i \in DOMAIN result.changes2 |->
                           lineChangeFromMapping(result.changes2[i])]]

DiffEditorCall(diffEditor, method) ==
  [target |-> "diffEditor", on |-> diffEditor, method |-> method, arg |-> NoValue]

\* Variant of $getDiffInformation that asks the dirtydiff contribution first.
getDiffInformation_ContributionFirst(id) ==
  LET editor == getEditor(id)
      diffEditor == diffEditorOf(editor)
      listDiffEditors == ServiceCall("codeEditorService", "listDiffEditors", NoValue)
      getContribution == EditorCall(editor, "getContribution", "editor.contrib.dirtydiff")
  IN
  /\ ~_toDispose.isDisposed
  /\ call' = Call("$getDiffInformation", id, NoValue)
  /\ IF editor = Undefined
       THEN /\ outcome' = Rejected(Error("No such TextEditor"))
            /\ svcCalls' = <<>>
       ELSE IF ~codeEditor[editor]
       THEN /\ outcome' = Rejected(Error("No such CodeEditor"))
            /\ svcCalls' = <<>>
       ELSE IF dirtyDiffContribution[editor] # NoValue
       THEN /\ outcome' = Resolved(dirtyDiffContribution[editor].changes)
            /\ svcCalls' = << listDiffEditors, getContribution,
                              EditorCall(editor, "getChanges", NoValue) >>
       ELSE IF diffEditor # Undefined
       THEN /\ outcome' = Resolved(IF getLineChanges(diffEditor) = NULL
                                     THEN <<>> ELSE getLineChanges(diffEditor).lineChanges)
            /\ svcCalls' = << listDiffEditors, getContribution,
                              DiffEditorCall(diffEditor, "getLineChanges") >>
       ELSE /\ outcome' = Resolved(<<>>)
            /\ svcCalls' = << listDiffEditors, getContribution >>
  /\ UNCHANGED <<modelVersion, modelContent>>
  /\ CommandFrame

\* $getDiffInformation
getDiffInformation(id) ==
  LET editor == getEditor(id)
      diffEditor == diffEditorOf(editor)
      listDiffEditors == ServiceCall("codeEditorService", "listDiffEditors", NoValue)
      getContribution == EditorCall(editor, "getContribution", "editor.contrib.dirtydiff")
  IN
  /\ ~_toDispose.isDisposed
  /\ call' = Call("$getDiffInformation", id, NoValue)
  /\ IF editor = Undefined
       THEN /\ outcome' = Rejected(Error("No such TextEditor"))
            /\ svcCalls' = <<>>
       ELSE IF ~codeEditor[editor]
       THEN /\ outcome' = Rejected(Error("No such CodeEditor"))
            /\ svcCalls' = <<>>
       ELSE IF diffEditor # Undefined
       THEN /\ outcome' = Resolved(IF getLineChanges(diffEditor) = NULL
                                     THEN <<>> ELSE getLineChanges(diffEditor).lineChanges)
            /\ svcCalls' = << listDiffEditors, DiffEditorCall(diffEditor, "getLineChanges") >>
       ELSE IF dirtyDiffContribution[editor] # NoValue
       THEN /\ outcome' = Resolved(dirtyDiffContribution[editor].changes)
            /\ svcCalls' = << listDiffEditors, getContribution,
                              EditorCall(editor, "getChanges", NoValue) >>
       ELSE /\ outcome' = Resolved(<<>>)
            /\ svcCalls' = << listDiffEditors, getContribution >>
  /\ UNCHANGED <<modelVersion, modelContent>>
  /\ CommandFrame

\* The dirtydiff contribution of an editor's code editor appears, goes or caches other
\* changes.
HostSetDirtyDiffContribution(textEditor, contribution) ==
  /\ contribution # dirtyDiffContribution[textEditor]
  /\ dirtyDiffContribution' = [dirtyDiffContribution EXCEPT ![textEditor] = contribution]
  /\ call' = Call("host:dirtyDiffContribution", textEditor, NoValue)
  /\ outcome' = NoOutcome /\ sent' = <<>> /\ svcCalls' = <<>>
  /\ UNCHANGED <<visibleEditorPanes, groupsOrder, locatorEditors, codeEditor, modelVersion,
                 modelContent, diffEditors, editorModel, diffComputationResult,
                 dirtyDiffModel, listeners, lastSentPos, lastSentDiff, removedSince>>
  /\ UNCHANGED bridgeVars
  /\ UNCHANGED decoVars

\* --------------------------------------------------- decoration type registry
\* What the registry operations of any bridge leave alone.
DecoFrame ==
  /\ outcome' = NoOutcome
  /\ sent' = <<>>
  /\ UNCHANGED <<listeners, lastSentPos, lastSentDiff, removedSince>>
  /\ UNCHANGED <<_instanceId, _toDispose, _textEditorsListenersMap, _editorPositionData>>
  /\ UNCHANGED hostVars

registerTextEditorDecorationType(extensionId, key) ==
  LET nkey == NamespacedKey(_instanceId, key) IN
  /\ ~_toDispose.isDisposed
  /\ call' = Call("$registerTextEditorDecorationType", Undefined, key)
  /\ _registeredDecorationTypes' = SetKey(_registeredDecorationTypes, nkey)
  /\ svcCalls' = << ServiceCall("codeEditorService", "registerDecorationType",
                      [description |-> <<"exthost-api-", extensionId>>, key |-> nkey]) >>
  /\ decorationTypes' = decorationTypes \cup {nkey}
  /\ registeredSince' = registeredSince \cup {key}
  /\ UNCHANGED <<INSTANCE_COUNT, otherInstances, issuedIds>>
  /\ DecoFrame

\* Variant of $removeTextEditorDecorationType that deletes the key as it was passed.
removeTextEditorDecorationType_RawKey(key) ==
  LET nkey == NamespacedKey(_instanceId, key) IN
  /\ ~_toDispose.isDisposed
  /\ call' = Call("$removeTextEditorDecorationType", Undefined, key)
  /\ _registeredDecorationTypes' = DeleteKey(_registeredDecorationTypes, key)
  /\ svcCalls' = << ServiceCall("codeEditorService", "removeDecorationType", nkey) >>
  /\ decorationTypes' = decorationTypes \ {nkey}
  /\ registeredSince' = registeredSince \ {key}
  /\ UNCHANGED <<INSTANCE_COUNT, otherInstances, issuedIds>>
  /\ DecoFrame

removeTextEditorDecorationType(key) ==
  LET nkey == NamespacedKey(_instanceId, key) IN
  /\ ~_toDispose.isDisposed
  /\ call' = Call("$removeTextEditorDecorationType", Undefined, key)
  /\ _registeredDecorationTypes' = DeleteKey(_registeredDecorationTypes, nkey)
  /\ svcCalls' = << ServiceCall("codeEditorService", "removeDecorationType", nkey) >>
  /\ decorationTypes' = decorationTypes \ {nkey}
  /\ registeredSince' = registeredSince \ {key}
  /\ UNCHANGED <<INSTANCE_COUNT, otherInstances, issuedIds>>
  /\ DecoFrame

\* The other bridges that share the code editor service, each reduced to the fields
\* that reach the service: its instance id and its registry.
OtherFrame ==
  /\ UNCHANGED <<_registeredDecorationTypes, registeredSince>>
  /\ DecoFrame

\* The constructor, run for another bridge: ++INSTANCE_COUNT names the instance.
constructorOther ==
  /\ INSTANCE_COUNT < MaxInstances
  /\ Cardinality(otherInstances) < MaxOthers
  /\ INSTANCE_COUNT' = INSTANCE_COUNT + 1
  /\ otherInstances' = otherInstances \cup
       { [instanceId |-> NumberToString(INSTANCE_COUNT'), registered |-> <<>>] }
  /\ issuedIds' = Append(issuedIds, NumberToString(INSTANCE_COUNT'))
  /\ call' = Call("other:constructor", Undefined, NoValue)
  /\ svcCalls' = <<>>
  /\ UNCHANGED decorationTypes
  /\ OtherFrame

otherRegisterTextEditorDecorationType(other, key) ==
  LET nkey == NamespacedKey(other.instanceId, key) IN
  /\ otherInstances' = (otherInstances \ {other}) \cup
       { [other EXCEPT !.registered = SetKey(@, nkey)] }
  /\ decorationTypes' = decorationTypes \cup {nkey}
  /\ call' = Call("other:$registerTextEditorDecorationType", Undefined, key)
  /\ svcCalls' = << ServiceCall("codeEditorService", "registerDecorationType",
                      [description |-> <<"exthost-api-", "ext">>, key |-> nkey]) >>
  /\ UNCHANGED <<INSTANCE_COUNT, issuedIds>>
  /\ OtherFrame

otherRemoveTextEditorDecorationType(other, key) ==
  LET nkey == NamespacedKey(other.instanceId, key) IN
  /\ otherInstances' = (otherInstances \ {other}) \cup
       { [other EXCEPT !.registered = DeleteKey(@, nkey)] }
  /\ decorationTypes' = decorationTypes \ {nkey}
  /\ call' = Call("other:$removeTextEditorDecorationType", Undefined, key)
  /\ svcCalls' = << ServiceCall("codeEditorService", "removeDecorationType", nkey) >>
  /\ UNCHANGED <<INSTANCE_COUNT, issuedIds>>
  /\ OtherFrame

otherDispose(other) ==
  /\ otherInstances' = otherInstances \ {other}
  /\ decorationTypes' = decorationTypes \ Range(other.registered)
  /\ call' = Call("other:dispose", Undefined, NoValue)
  /\ svcCalls' = RemoveDecorationTypeCalls(other.registered)
  /\ UNCHANGED <<INSTANCE_COUNT, issuedIds>>
  /\ OtherFrame

\* ------------------------------------------------------------------- Init
\* The state the constructor leaves.  The host's side: surfaces says which editors
\* have a code editor, inDiff which of them are a side of a diff editor, models which
\* have a model bound, dirty the quick-diff models and contributions the dirtydiff
\* contributions.
InitDiff(surfaces, inDiff, models, dirty, contributions) ==
  /\ INSTANCE_COUNT = 1
  /\ _instanceId = NumberToString(1)
  /\ _toDispose = [isDisposed |-> FALSE]
  /\ _textEditorsListenersMap = <<>>
  /\ _editorPositionData = NULL
  /\ _registeredDecorationTypes = <<>>
  /\ visibleEditorPanes = <<>>
  /\ groupsOrder = <<"g1", "g2">>
  /\ locatorEditors = Handles
  /\ codeEditor = surfaces
  /\ modelVersion = [h \in Handles |-> 1]
  /\ modelContent = [h \in Handles |-> <<>>]
  /\ diffEditors = inDiff
  /\ editorModel = models
  /\ diffComputationResult = [h \in Handles |-> NULL]
  /\ dirtyDiffModel = dirty
  /\ dirtyDiffContribution = contributions
  /\ listeners = [h \in Handles |-> <<>>]
  /\ decorationTypes = {}
  /\ otherInstances = {}
  /\ call = Call("constructor", Undefined, NoValue)
  /\ outcome = NoOutcome
  /\ sent = <<>>
  /\ svcCalls = <<>>
  /\ lastSentPos = NULL
  /\ lastSentDiff = [h \in Handles |-> NULL]
  /\ removedSince = {}
  /\ issuedIds = << NumberToString(1) >>
  /\ registeredSince = {}

\* Plain editors with a model whose resource has a quick-diff model without changes.
InitialDirtyDiffModel ==
  [quickDiffs |-> << QuickDiff("Other", FALSE), QuickDiff("Git", TRUE) >>, changes |-> <<>>]
InitWith(surfaces) ==
  InitDiff(surfaces, {}, [h \in Handles |-> TRUE],
           [h \in Handles |-> InitialDirtyDiffModel], [h \in Handles |-> NoValue])

Init == InitWith([h \in Handles |-> TRUE])
\* Editors with and without a code editor.
InitEditors == \E surfaces \in [Handles -> BOOLEAN] : InitWith(surfaces)

\* ------------------------------------------- editors coming and going: Spec
\* The quick-diff models the editors' resources go through here.
SpecDirtyDiffModels ==
  { m \in DirtyDiffModels : Len(m.quickDiffs) = 2 /\ Len(m.changes) <= 2 }
Next ==
  \/ \E e \in Handles : handleTextEditorAdded(e)
  \/ \E id \in Ids : handleTextEditorRemoved(id)
  \/ \E e \in Handles, data \in PropertyData : onPropertiesChanged(e, data)
  \/ \E e \in Handles, m \in SpecDirtyDiffModels : onDidChangeDirtyDiff(e, m)
  \/ onDidVisibleEditorsChange
  \/ onDidRemoveGroup
  \/ onDidMoveGroup
  \/ \E k \in { <<"a">> } : registerTextEditorDecorationType("ext", k)
  \/ dispose

Spec == InitEditors /\ [][Next]_vars

\* ------------------------------------------- position synchronisation: SpecPos
NextPos ==
  \/ \E panes \in PaneLists : HostSetVisiblePanes(panes)
  \/ \E order \in Perms(Groups) : HostSetGroupsOrder(order)
  \/ \E known \in SUBSET Handles : HostSetLocatorEditors(known)
  \/ onDidVisibleEditorsChange
  \/ onDidRemoveGroup
  \/ onDidMoveGroup
  \/ dispose

SpecPos == Init /\ [][NextPos]_vars

\* ------------------------------------------- commands on editors: SpecCmd
\* One editor without a code editor and one with, whose resources have no quick-diff
\* model.
InitCmd ==
  InitDiff([h \in Handles |-> h # "e1"], {}, [h \in Handles |-> TRUE],
           [h \in Handles |-> NoValue], [h \in Handles |-> NoValue])

NextCmd ==
  \/ \E e \in Handles \ MapKeys(_textEditorsListenersMap) : handleTextEditorAdded(e)
  \/ \E k \in { <<"a">> } : registerTextEditorDecorationType("ext", k)
  \/ onDidVisibleEditorsChange
  \/ \E known \in SUBSET Handles : HostSetLocatorEditors(known)
  \/ \E id \in Ids, p \in Payloads : trySetSelections(id, p)
  \/ \E id \in Ids, k \in RawKeys, p \in Payloads : trySetDecorations(id, k, p)
  \/ \E id \in Ids, k \in RawKeys, p \in Payloads : trySetDecorationsFast(id, k, p)
  \/ \E id \in Ids, p \in Payloads : tryRevealRange(id, p)
  \/ \E id \in Ids, p \in Payloads : trySetOptions(id, p)
  \/ \E id \in Ids, v \in 1..MaxVersion, p \in Payloads : tryApplyEdits(id, v, p)
  \/ \E id \in Ids, v \in 1..MaxVersion, p \in Payloads : tryInsertSnippet(id, v, p)
  \/ dispose

SpecCmd == InitCmd /\ [][NextCmd]_vars

\* ------------------------------------------- showing and hiding: SpecView
NextView ==
  \/ \E panes \in PaneLists : HostSetVisiblePanes(panes)
  \/ \E known \in SUBSET Handles : HostSetLocatorEditors(known)
  \/ \E id \in Ids, position \in Columns : tryShowEditor(id, position)
  \/ \E id \in Ids : tryHideEditor(id)
  \/ dispose

SpecView == Init /\ [][NextView]_vars

\* ------------------------------------------- decoration types: SpecDeco
NextDeco ==
  \/ \E k \in RawKeys : registerTextEditorDecorationType("ext", k)
  \/ \E k \in RawKeys : removeTextEditorDecorationType(k)
  \/ \E id \in Ids, k \in RawKeys, p \in Payloads : trySetDecorations(id, k, p)
  \/ \E id \in Ids, k \in RawKeys, p \in Payloads : trySetDecorationsFast(id, k, p)
  \/ constructorOther
  \/ \E o \in otherInstances, k \in RawKeys : otherRegisterTextEditorDecorationType(o, k)
  \/ \E o \in otherInstances, k \in RawKeys : otherRemoveTextEditorDecorationType(o, k)
  \/ \E o \in otherInstances : otherDispose(o)
  \/ dispose

SpecDeco == Init /\ [][NextDeco]_vars

\* ------------------------------------------- all remote commands: SpecRemote
\* One editor without a code editor and one with a plain code editor that has neither a
\* diff view nor a dirtydiff contribution.
InitRemote ==
  InitDiff([h \in Handles |-> h # "e1"], {}, [h \in Handles |-> TRUE],
           [h \in Handles |-> InitialDirtyDiffModel], [h \in Handles |-> NoValue])

\* The panes the editor service shows here; opening an editor leaves them as they are.
RemotePaneLists == { <<>>, << [ed |-> "e2", group |-> "g1"] >> }

NextRemote ==
  \/ \E known \in SUBSET Handles : HostSetLocatorEditors(known)
  \/ \E panes \in RemotePaneLists : HostSetVisiblePanes(panes)
  \/ \E opened \in OpenEditorResults :
       /\ visibleEditorPanes' = visibleEditorPanes
       /\ tryShowTextDocument(ModelUri("e2"), 0, opened)
  \/ \E id \in Ids :
       /\ visibleEditorPanes' = visibleEditorPanes
       /\ tryShowEditor(id, 0)
  \/ \E id \in Ids : tryHideEditor(id)
  \/ \E id \in Ids, p \in Payloads : trySetSelections(id, p)
  \/ \E id \in Ids, k \in { <<"a">> }, p \in Payloads : trySetDecorations(id, k, p)
  \/ \E id \in Ids, k \in { <<"a">> }, p \in Payloads : trySetDecorationsFast(id, k, p)
  \/ \E id \in Ids, p \in Payloads : tryRevealRange(id, p)
  \/ \E id \in Ids, p \in Payloads : trySetOptions(id, p)
  \/ \E id \in Ids, v \in 1..MaxVersion, p \in Payloads : tryApplyEdits(id, v, p)
  \/ \E id \in Ids, v \in 1..MaxVersion, p \in Payloads : tryInsertSnippet(id, v, p)
  \/ \E k \in { <<"a">> } : registerTextEditorDecorationType("ext", k)
  \/ \E k \in { <<"a">> } : removeTextEditorDecorationType(k)
  \/ \E id \in Ids : getDiffInformation(id)
  \/ dispose

SpecRemote == InitRemote /\ [][NextRemote]_vars

\* ------------------------------------------- fetching diff information: SpecQuery
\* Editors with and without a code editor, in and out of a diff view, with and without
\* a dirtydiff contribution.
InitQuery ==
  \E surfaces \in [Handles -> BOOLEAN], inDiff \in SUBSET Handles :
    InitDiff(surfaces, inDiff, [h \in Handles |-> TRUE],
             [h \in Handles |-> InitialDirtyDiffModel], [h \in Handles |-> NoValue])

NextQuery ==
  \/ \E known \in SUBSET Handles : HostSetLocatorEditors(known)
  \/ \E e \in Handles, c \in DirtyDiffContributions \cup {NoValue} :
       HostSetDirtyDiffContribution(e, c)
  \/ \E e \in Handles, r \in DiffResults : onDidUpdateDiff(e, r)
  \/ \E id \in Ids : getDiffInformation(id)
  \/ dispose

SpecQuery == InitQuery /\ [][NextQuery]_vars

\* ------------------------------------------- diff information: SpecDiff
\* The editors whose model, diff editor and quick-diff model change here; the sources
\* of the other editors stay as they are.
DiffSubjects == {"e1"}

\* The subjects with and without a code editor, in and out of a diff view; every
\* editor is added while it has no bundle.
InitDiffViews ==
  \E surfaces \in [DiffSubjects -> BOOLEAN], inDiff \in SUBSET DiffSubjects :
    InitDiff([h \in Handles |-> IF h \in DiffSubjects THEN surfaces[h] ELSE TRUE], inDiff,
             [h \in Handles |-> TRUE], [h \in Handles |-> InitialDirtyDiffModel],
             [h \in Handles |-> NoValue])

NextDiff ==
  \/ \E e \in Handles \ MapKeys(_textEditorsListenersMap) : handleTextEditorAdded(e)
  \/ \E e \in Handles : handleTextEditorRemoved(e)
  \/ \E e \in DiffSubjects, model \in BOOLEAN, dirty \in DirtyDiffModels \cup {NoValue} :
       onDidChangeModel(e, model, dirty)
  \/ \E e \in DiffSubjects, r \in DiffResults : onDidUpdateDiff(e, r)
  \/ \E e \in DiffSubjects, m \in DirtyDiffModels : onDidChangeDirtyDiff(e, m)
  \/ \E e \in DiffSubjects : HostChangeModelContent(e)
  \/ \E e \in DiffSubjects : HostSetCodeEditor(e)
  \/ dispose

SpecDiff == InitDiffViews /\ [][NextDiff]_vars

\* ================================================================ properties
PositionEvents == {"onDidVisibleEditorsChange", "onDidRemoveGroup", "onDidMoveGroup"}
RejectingCommands == {"$trySetSelections", "$trySetDecorations", "$trySetDecorationsFast",
                      "$tryRevealRange", "$trySetOptions", "$tryApplyEdits", "$tryInsertSnippet"}
PerEditorMethods == {"$acceptEditorPropertiesChanged", "$acceptEditorDiffInformation"}

\* C1: whenever one of the three host events runs _updateActiveAndVisibleTextEditors,
\* $acceptEditorPositionData is sent if and only if the mapping computed from the visible
\* panes differs from the last mapping sent (none before the first), what is sent is that
\* mapping, and the stored snapshot is the last mapping sent.
C1_PositionSentIffChanged ==
  [][ (call'.op \in PositionEvents /\ ~_toDispose.isDisposed) =>
        LET computed == _getTextEditorPositionData IN
        /\ (sent' # <<>>) <=> (lastSentPos # computed)
        /\ sent' # <<>> => sent' = << PositionDataMsg(computed) >>
        /\ _editorPositionData' = lastSentPos' ]_vars

\* An event fired again with the same two panes, both known: nothing is sent.
C1_Witness ==
  /\ call.op \in PositionEvents
  /\ ~_toDispose.isDisposed
  /\ sent = <<>>
  /\ _editorPositionData # NULL
  /\ DOMAIN _editorPositionData = Handles
  /\ _editorPositionData = _getTextEditorPositionData

\* C2: once handleTextEditorRemoved(h) has run and h has not been added again, no
\* $acceptEditorPropertiesChanged(h, ..) and no $acceptEditorDiffInformation(h, ..) is sent.
C2_NoForwardingAfterRemove ==
  \A h \in removedSince :
    \A i \in DOMAIN sent : sent[i].method \in PerEditorMethods => sent[i].id # h

\* C3: each handle has at most one live listener bundle, and a live bundle is the one
\* the listener map records for its handle.
C3_OneBundlePerHandle ==
  \A h \in Handles :
    /\ Len(listeners[h]) <= 1
    /\ Len(listeners[h]) = 1 =>
         [id |-> h, bundle |-> 1] \in Range(_textEditorsListenersMap)

\* C4: each of the seven commands, given an id the locator does not resolve, rejects
\* with the illegal-argument error naming TextEditor(<id>), calls no editor method and
\* changes nothing; given an id that resolves, it does not reject.
C4_RejectsUnknownHandle ==
  [][ call'.op \in RejectingCommands =>
        IF call'.id \notin locatorEditors
          THEN /\ outcome' = [kind |-> "rejected",
                              value |-> [error |-> "Illegal argument",
                                         argument |-> <<"TextEditor(", call'.id, ")">>]]
               /\ svcCalls' = <<>>
               /\ sent' = <<>>
               /\ UNCHANGED <<_textEditorsListenersMap, _editorPositionData,
                              _registeredDecorationTypes, _toDispose, listeners,
                              decorationTypes, modelVersion, modelContent>>
          ELSE outcome'.kind = "resolved" ]_vars

\* A rejected command on a bridge that holds a bundle, a snapshot and a registration.
C4_Witness ==
  /\ call.op \in RejectingCommands
  /\ call.id = "missing"
  /\ outcome.kind = "rejected"
  /\ _textEditorsListenersMap # <<>>
  /\ _editorPositionData # NULL
  /\ _registeredDecorationTypes # <<>>

\* C5: $tryApplyEdits on a resolved editor whose model version is not the version
\* passed resolves with false and leaves the model's content and version alone.
C5_StaleVersionReturnsFalse ==
  [][ (/\ call'.op = "$tryApplyEdits"
       /\ call'.id \in locatorEditors
       /\ modelVersion[call'.id] # call'.arg.modelVersionId) =>
        /\ outcome' = [kind |-> "resolved", value |-> FALSE]
        /\ modelVersion' = modelVersion
        /\ modelContent' = modelContent ]_vars

\* Version 1 passed to an editor with a surface whose model is at version 2.
C5_Witness ==
  /\ call.op = "$tryApplyEdits"
  /\ call.id \in locatorEditors
  /\ codeEditor[call.id]
  /\ call.arg.modelVersionId = 1
  /\ modelVersion[call.id] = 2
  /\ outcome = [kind |-> "resolved", value |-> FALSE]

\* C6: the namespaced keys of two different bridge instances never coincide, whatever
\* the keys passed, so every live bridge's registrations stay registered with the code
\* editor service whatever the other bridges remove or dispose, and a key handed to an
\* editor by $trySetDecorations / $trySetDecorationsFast is no other bridge's key.
C6_InstanceNamespacesDisjoint ==
  /\ \A i, j \in DOMAIN issuedIds :
       i # j => \A K, K2 \in RawKeys :
                  NamespacedKey(issuedIds[i], K) # NamespacedKey(issuedIds[j], K2)
  /\ Range(_registeredDecorationTypes) \subseteq decorationTypes
  /\ \A o \in otherInstances :
       /\ Range(o.registered) \subseteq decorationTypes
       /\ Range(o.registered) \cap Range(_registeredDecorationTypes) = {}
       /\ \A o2 \in otherInstances \ {o} : Range(o.registered) \cap Range(o2.registered) = {}
  /\ (call.op \in {"$trySetDecorations", "$trySetDecorationsFast"} /\ svcCalls # <<>>) =>
       \A o \in otherInstances, K \in RawKeys :
         svcCalls[1].arg.key # NamespacedKey(o.instanceId, K)

\* Another bridge, created after an earlier one was disposed, is disposed with a
\* registration of its own while this bridge holds registrations.
C6_Witness ==
  /\ call.op = "other:dispose"
  /\ svcCalls # <<>>
  /\ INSTANCE_COUNT >= 3
  /\ Len(_registeredDecorationTypes) = 2

\* C7: the registry holds exactly the namespaced forms of the keys registered and not
\* removed since, each once, and dispose() calls removeDecorationType once for each
\* key the registry held and for nothing else.
C7_RegistryTracksRegistrations ==
  [][ /\ Range(_registeredDecorationTypes') =
           { _instanceId \o <<"-">> \o k : k \in registeredSince' }
      /\ Len(_registeredDecorationTypes') = Cardinality(Range(_registeredDecorationTypes'))
      /\ call'.op = "dispose" =>
           LET removals == SelectSeq(svcCalls', LAMBDA c : c.target = "codeEditorService") IN
           /\ Len(removals) = Cardinality(Range(_registeredDecorationTypes))
           /\ { removals[i].arg : i \in DOMAIN removals } = Range(_registeredDecorationTypes)
           /\ \A i \in DOMAIN removals : removals[i].method = "removeDecorationType" ]_vars

\* dispose() sweeping two registrations.
C7_Witness ==
  /\ call.op = "dispose"
  /\ Len(svcCalls) = 2
  /\ \A i \in DOMAIN svcCalls : svcCalls[i].method = "removeDecorationType"
  /\ _registeredDecorationTypes = <<>>

\* C8: dispose() releases the bundle of every map entry and the store of the three
\* host subscriptions (no event runs the update afterwards), and leaves the map and the
\* registry empty; on a disposed bridge it changes nothing and calls nothing.
C8_DisposeReleasesAndRepeats ==
  [][ /\ call'.op = "dispose" =>
           /\ _textEditorsListenersMap' = <<>>
           /\ _registeredDecorationTypes' = <<>>
           /\ _toDispose'.isDisposed
           /\ \A h \in Handles :
                LET held == { e \in Range(_textEditorsListenersMap) : e.id = h } IN
                /\ Len(listeners'[h]) = Len(listeners[h]) - Cardinality(held)
                /\ \A e \in held :
                     /\ listeners'[h] = SubSeq(listeners[h], 1, e.bundle - 1)
                                           \o SubSeq(listeners[h], e.bundle + 1, Len(listeners[h]))
                     /\ \E i \in DOMAIN svcCalls' :
                          /\ svcCalls'[i].target = "bundle"
                          /\ svcCalls'[i].on = h
                          /\ svcCalls'[i].arg = e.bundle
                /\ held = {} => listeners'[h] = listeners[h]
           /\ _toDispose.isDisposed =>
                /\ svcCalls' = <<>>
                /\ UNCHANGED <<bridgeVars, listeners, decorationTypes>>
      /\ (call'.op \in PositionEvents /\ _toDispose.isDisposed) =>
           (sent' = <<>> /\ UNCHANGED _editorPositionData) ]_vars

\* A dispose that swept a registration.
C8_Witness ==
  /\ call.op = "dispose"
  /\ _toDispose.isDisposed
  /\ { svcCalls[i].target : i \in DOMAIN svcCalls } = {"bundle", "codeEditorService"}
  /\ { svcCalls[i].on : i \in { j \in DOMAIN svcCalls : svcCalls[j].target = "bundle" } }
       = Handles

\* C9: after dispose() no notification of any kind is sent.
C9_SilentAfterDispose ==
  _toDispose.isDisposed => sent = <<>>

\* C10: $tryShowEditor and $tryHideEditor resolve with no value and call nothing when
\* the id does not resolve; $tryHideEditor on a resolved id calls nothing when no visible
\* pane matches and otherwise calls closeEditor once, on the first matching pane.
C10_ShowHideSilentOnUnknown ==
  [][ call'.op \in {"$tryShowEditor", "$tryHideEditor"} =>
        LET id == call'.id
            hits == { i \in DOMAIN visibleEditorPanes : visibleEditorPanes[i].ed = id }
            first == CHOOSE i \in hits : \A j \in hits : i <= j
        IN
        /\ id \notin locatorEditors =>
             /\ outcome' = [kind |-> "resolved", value |-> NoValue]
             /\ svcCalls' = <<>>
             /\ UNCHANGED visibleEditorPanes
        /\ (call'.op = "$tryHideEditor" /\ id \in locatorEditors /\ hits = {}) =>
             /\ outcome' = [kind |-> "resolved", value |-> NoValue]
             /\ svcCalls' = <<>>
             /\ UNCHANGED visibleEditorPanes
        /\ (call'.op = "$tryHideEditor" /\ id \in locatorEditors /\ hits # {}) =>
             /\ Len(svcCalls') = 1
             /\ svcCalls'[1].method = "closeEditor"
             /\ svcCalls'[1].target = "group"
             /\ svcCalls'[1].on = visibleEditorPanes[first].group
             /\ svcCalls'[1].arg.pane = first
             /\ \A i \in DOMAIN visibleEditorPanes' : visibleEditorPanes'[i] \in Range(visibleEditorPanes)
             /\ Len(visibleEditorPanes') >= Len(visibleEditorPanes) - 1
        /\ (call'.op = "$tryShowEditor" /\ id \in locatorEditors) =>
             /\ Len(svcCalls') = 1
             /\ svcCalls'[1].method = "openEditor" ]_vars

\* Two visible panes match the editor, the first is the one closeEditor was called on.
C10_Witness ==
  /\ call.op = "$tryHideEditor"
  /\ Len(svcCalls) = 1
  /\ svcCalls[1].arg.pane = 1
  /\ Len(visibleEditorPanes) = 2
  /\ visibleEditorPanes[1].ed = call.id
  /\ visibleEditorPanes[2].ed = call.id

\* The operations the extension host invokes.
RemoteCommands ==
  RejectingCommands \cup {"$tryShowTextDocument", "$tryShowEditor", "$tryHideEditor",
                          "$getDiffInformation", "$registerTextEditorDecorationType",
                          "$removeTextEditorDecorationType"}

\* C11 as stated: a remote command rejects only when its editor handle does not resolve;
\* in particular $getDiffInformation on a resolved editor without a code editor
\* resolves.
C11_RejectsOnlyUnresolvedHandle ==
  [][ call'.op \in RemoteCommands =>
        /\ outcome'.kind = "rejected" => call'.id \in Ids \ locatorEditors
        /\ (/\ call'.op = "$getDiffInformation"
            /\ call'.id \in locatorEditors
            /\ ~codeEditor[call'.id]) => outcome'.kind = "resolved" ]_vars

\* C11 amended: a remote command rejects only when its editor handle does not resolve,
\* when $getDiffInformation's editor has no code editor, or when the host's openEditor /
\* closeEditor itself fails; no diff view and no dirtydiff contribution, no editor
\* returned from openEditor, an opened editor without a code editor or without an id,
\* and a stale version all resolve (with the empty list, undefined, false).
C11_RejectionCauses ==
  [][ call'.op \in RemoteCommands =>
        /\ outcome'.kind = "rejected" =>
             \/ /\ call'.op \in RejectingCommands \cup {"$getDiffInformation"}
                /\ call'.id \in Ids \ locatorEditors
             \/ /\ call'.op = "$getDiffInformation"
                /\ call'.id \in locatorEditors
                /\ ~codeEditor[call'.id]
             \/ /\ call'.op \in {"$tryShowTextDocument", "$tryShowEditor", "$tryHideEditor"}
                /\ outcome'.value.error \in {"openEditor", "closeEditor"}
                /\ svcCalls' # <<>>
        /\ (/\ call'.op = "$getDiffInformation"
            /\ call'.id \in locatorEditors
            /\ codeEditor[call'.id]
            /\ call'.id \notin diffEditors
            /\ dirtyDiffContribution[call'.id] = NoValue) =>
             outcome' = [kind |-> "resolved", value |-> <<>>]
        /\ (/\ call'.op = "$tryShowTextDocument"
            /\ \/ call'.arg.opened.kind = "undefined"
               \/ /\ call'.arg.opened.kind = "editor"
                  /\ call'.arg.opened.control \notin locatorEditors) =>
             outcome' = [kind |-> "resolved", value |-> NoValue]
        /\ (/\ call'.op = "$tryApplyEdits"
            /\ call'.id \in locatorEditors
            /\ call'.arg.modelVersionId # modelVersion[call'.id]) =>
             outcome' = [kind |-> "resolved", value |-> FALSE] ]_vars

\* $getDiffInformation resolving with the empty list for a code editor that has neither
\* a diff view nor a dirtydiff contribution.
C11_Witness ==
  /\ call.op = "$getDiffInformation"
  /\ call.id \in locatorEditors
  /\ codeEditor[call.id]
  /\ call.id \notin diffEditors
  /\ dirtyDiffContribution[call.id] = NoValue
  /\ outcome.kind = "resolved"
  /\ svcCalls # <<>>

\* C12: $getDiffInformation(id) rejects when the id does not resolve or its editor has
\* no code editor; otherwise it resolves with the line changes of the diff editor that
\* has the code editor as a side (the empty list when it has none) without asking for
\* the dirtydiff contribution, else with the changes the dirtydiff contribution caches
\* when there is one, else with the empty list.
C12_DiffInformationPreference ==
  [][ call'.op = "$getDiffInformation" =>
        LET id == call'.id
            asked == { svcCalls'[i].method : i \in DOMAIN svcCalls' }
        IN
        IF id \notin locatorEditors \/ ~codeEditor[id]
          THEN /\ outcome'.kind = "rejected"
               /\ asked = {}
        ELSE IF id \in diffEditors
          THEN /\ outcome'.kind = "resolved"
               /\ outcome'.value = IF getLineChanges(id) = NULL THEN <<>>
                                   ELSE getLineChanges(id).lineChanges
               /\ "getContribution" \notin asked
               /\ "getChanges" \notin asked
        ELSE IF dirtyDiffContribution[id] # NoValue
          THEN /\ outcome'.kind = "resolved"
               /\ outcome'.value = dirtyDiffContribution[id].changes
        ELSE outcome' = [kind |-> "resolved", value |-> <<>>] ]_vars

\* The code editor is a side of a diff editor with a computed change and also has a
\* dirtydiff contribution with a change: the diff editor's line change is returned.
C12_Witness ==
  /\ call.op = "$getDiffInformation"
  /\ call.id \in locatorEditors \cap diffEditors
  /\ codeEditor[call.id]
  /\ dirtyDiffContribution[call.id] # NoValue
  /\ dirtyDiffContribution[call.id].changes # <<>>
  /\ outcome = [kind |-> "resolved", value |-> << IChange(1, 1, 1, 2) >>]
  /\ Len(svcCalls) = 2

\* C13: handleTextEditorRemoved(id) for an id that has no entry in the listener map
\* returns normally, disposes nothing, sends nothing, and leaves the map, every live
\* bundle, the position snapshot and the decoration registry as they were.
C13_RemoveWithoutBundleIsNoOp ==
  [][ (/\ call'.op = "handleTextEditorRemoved"
       /\ call'.id \notin { _textEditorsListenersMap[i].id : i \in DOMAIN _textEditorsListenersMap })
        =>
        /\ outcome' = [kind |-> "void", value |-> NoValue]
        /\ svcCalls' = <<>>
        /\ sent' = <<>>
        /\ UNCHANGED <<_textEditorsListenersMap, listeners, _editorPositionData,
                       _registeredDecorationTypes, decorationTypes, _toDispose>> ]_vars

\* A second remove of the same handle while another handle has a bundle, a snapshot was
\* sent and a decoration type is registered.
C13_Witness ==
  /\ call.op = "handleTextEditorRemoved"
  /\ call.id \in Handles
  /\ call.id \in removedSince
  /\ listeners[call.id] = <<>>
  /\ svcCalls = <<>>
  /\ _textEditorsListenersMap # <<>>
  /\ _editorPositionData # NULL
  /\ _registeredDecorationTypes # <<>>

\* The events of the sources of the diff derivation.
DiffSourceEvents == {"onDidChangeModel", "onDidUpdateDiff", "dirtyDiffModel.onDidChange"}

\* C14: for every handle, a step sends at most one $acceptEditorDiffInformation for it;
\* one sent after the first of its bundle never carries a value equal (version,
\* resources and change tuples, or no value on both sides) to the one sent before it;
\* and an event of a source its bundle is subscribed to sends nothing when the value
\* recomputed is equal to the last one sent and exactly that value when it is not.
C14_NoEqualConsecutiveDiff ==
  [][ \A h \in Handles :
        LET msgs == SelectSeq(sent', LAMBDA m : m.method = "$acceptEditorDiffInformation"
                                                /\ m.id = h)
            recomputed == derivedOpts(h, editorModel'[h], modelVersion'[h],
                                      diffComputationResult'[h], dirtyDiffModel'[h])
        IN
        /\ Len(msgs) <= 1
        /\ (msgs # <<>> /\ call'.op # "handleTextEditorAdded") =>
             msgs[1].data # lastSentDiff[h]
        /\ (/\ call'.op \in DiffSourceEvents
            /\ call'.id = h
            /\ listeners[h] # <<>>
            /\ listeners[h][1].obs = "derived"
            /\ call'.op = "dirtyDiffModel.onDidChange" => h \notin diffEditors) =>
             msgs = IF recomputed = lastSentDiff[h] THEN <<>>
                    ELSE << [method |-> "$acceptEditorDiffInformation", id |-> h,
                             data |-> recomputed] >> ]_vars

\* The quick-diff model of a plain editor changed and the value recomputed is the value
\* (with two changes) sent last: nothing was sent.
C14_Witness ==
  /\ call.op = "dirtyDiffModel.onDidChange"
  /\ call.id \notin diffEditors
  /\ listeners[call.id] # <<>>
  /\ listeners[call.id][1].obs = "derived"
  /\ sent = <<>>
  /\ lastSentDiff[call.id] \notin {NULL, NoValue}
  /\ Len(lastSentDiff[call.id].changes) = 2
  /\ Len(call.arg.changes) = 3

\* C15 as stated: a diff information notification for an editor whose code editor is a
\* side of a diff editor that has a model and no computation result carries no value.
C15_NoResultForwardsNoValue ==
  \A i \in DOMAIN sent :
    (/\ sent[i].method = "$acceptEditorDiffInformation"
     /\ sent[i].id \in diffEditors
     /\ listeners[sent[i].id][1].obs = "derived"
     /\ editorModel[sent[i].id]
     /\ diffComputationResult[sent[i].id] = NULL) =>
      sent[i].data = NoValue

\* C15 amended: such a notification carries a value with an empty change list, the
\* resources of the two sides of the diff model and the version of the model.
C15_NoResultForwardsEmptyChanges ==
  \A i \in DOMAIN sent :
    (/\ sent[i].method = "$acceptEditorDiffInformation"
     /\ sent[i].id \in diffEditors
     /\ listeners[sent[i].id][1].obs = "derived"
     /\ editorModel[sent[i].id]
     /\ diffComputationResult[sent[i].id] = NULL) =>
      sent[i].data = [documentVersion |-> modelVersion[sent[i].id],
                      original |-> <<"original", sent[i].id>>,
                      modified |-> <<"file", sent[i].id>>,
                      changes |-> <<>>]

\* The diff editor got another model after a change had been computed and sent: the
\* value with no changes is sent.
C15_Witness ==
  /\ call.op = "onDidChangeModel"
  /\ call.id \in diffEditors
  /\ editorModel[call.id]
  /\ diffComputationResult[call.id] = NULL
  /\ Len(sent) = 1
  /\ sent[1].data # NoValue
  /\ sent[1].data.changes = <<>>
  /\ sent[1].data.documentVersion = 2

\* C16: a diff information notification for a plain editor with a model whose resource
\* has a quick-diff model carries no value when no quick diff of the model is marked
\* isSCM; otherwise it carries the version of the editor's model, the original resource
\* of the first isSCM quick diff, the resource of the editor's model, and, in their
\* order in the model, exactly the changes recorded under that quick diff's label, each
\* as (original start, original end exclusive, modified start, modified end exclusive).
C16_QuickDiffChangesFiltered ==
  \A i \in DOMAIN sent :
    (/\ sent[i].method = "$acceptEditorDiffInformation"
     /\ sent[i].id \notin diffEditors
     /\ listeners[sent[i].id][1].obs = "derived"
     /\ editorModel[sent[i].id]
     /\ dirtyDiffModel[sent[i].id] # NoValue) =>
      LET id == sent[i].id
          data == sent[i].data
          model == dirtyDiffModel[id]
          scm == { q \in DOMAIN model.quickDiffs : model.quickDiffs[q].isSCM }
          scmQuickDiff == model.quickDiffs[CHOOSE q \in scm : \A r \in scm : q <= r]
          own == { j \in DOMAIN model.changes : model.changes[j].label = scmQuickDiff.label }
          Tuple(change) ==
            LET mapping == lineRangeMappingFromChange(change) IN
            << mapping.original.startLineNumber, mapping.original.endLineNumberExclusive,
               mapping.modified.startLineNumber, mapping.modified.endLineNumberExclusive >>
      IN
      IF scm = {} THEN data = NoValue
      ELSE /\ data # NoValue
           /\ data.documentVersion = modelVersion[id]
           /\ data.original = scmQuickDiff.originalResource
           /\ data.modified = <<"file", id>>
           /\ Len(data.changes) = Cardinality(own)
           /\ \E f \in [DOMAIN data.changes -> own] :
                /\ \A a, b \in DOMAIN data.changes : a < b => f[a] < f[b]
                /\ \A k \in DOMAIN data.changes :
                     data.changes[k] = Tuple(model.changes[f[k]].change)

\* A quick-diff model with three changes, two of them under the isSCM quick diff's
\* label, changed at version 2: the two are sent in their order.
C16_Witness ==
  /\ call.op = "dirtyDiffModel.onDidChange"
  /\ call.id \notin diffEditors
  /\ Len(sent) = 1
  /\ Len(dirtyDiffModel[call.id].changes) = 3
  /\ sent[1].data # NoValue
  /\ sent[1].data.documentVersion = 2
  /\ sent[1].data.changes = << <<5, 7, 6, 6>>, <<3, 3, 3, 5>> >>

\* C17: the mapping a position event leaves as the snapshot, and sends when it sends,
\* has as keys exactly the handles the locator gives for the panes visible at that
\* moment (nothing for a pane without a handle, nothing left from panes shown earlier),
\* and maps each handle to the column, at that moment, of the group of the last visible
\* pane that has this handle.
C17_PositionMappingRebuilt ==
  [][ (call'.op \in PositionEvents /\ ~_toDispose.isDisposed) =>
        LET data == _editorPositionData'
            panes == visibleEditorPanes
            HandleOf(i) == IF panes[i].ed \in locatorEditors THEN panes[i].ed ELSE "undefined"
            keys == { HandleOf(i) : i \in DOMAIN panes } \ {"undefined"}
            LastPane(h) == CHOOSE i \in DOMAIN panes :
                             /\ HandleOf(i) = h
                             /\ \A j \in DOMAIN panes : HandleOf(j) = h => j <= i
            ColumnOf(g) == (CHOOSE c \in DOMAIN groupsOrder : groupsOrder[c] = g) - 1
        IN
        /\ DOMAIN data = keys
        /\ \A h \in keys : data[h] = ColumnOf(panes[LastPane(h)].group)
        /\ sent' # <<>> => sent'[1].data = data ]_vars

\* Two visible panes in different columns have the same handle; the column of the
\* second went out.
C17_Witness ==
  /\ call.op \in PositionEvents
  /\ Len(sent) = 1
  /\ Len(visibleEditorPanes) = 2
  /\ visibleEditorPanes[1].ed = "e1"
  /\ visibleEditorPanes[2].ed = "e1"
  /\ sent[1].data = [h \in {"e1"} |-> editorGroupToColumn(visibleEditorPanes[2].group)]
  /\ editorGroupToColumn(visibleEditorPanes[1].group) = 0

\* C18: handleTextEditorAdded(e) sends exactly one notification, the
\* $acceptEditorDiffInformation of e carrying what the diff derivation yields at that
\* moment, or no value when e has no code editor then; and the bundle of an editor added
\* without a code editor sends no $acceptEditorDiffInformation in any later step,
\* whatever fires and even after a code editor appeared.
C18_AddSendsOnceThenConstSilent ==
  [][ /\ call'.op = "handleTextEditorAdded" =>
           LET id == call'.id
               v == IF codeEditor[id]
                      THEN derivedOpts(id, editorModel[id], modelVersion[id],
                                       diffComputationResult[id], dirtyDiffModel[id])
                      ELSE NoValue
           IN /\ sent' = << [method |-> "$acceptEditorDiffInformation", id |-> id, data |-> v] >>
              /\ listeners'[id][Len(listeners'[id])].obs =
                   (IF codeEditor[id] THEN "derived" ELSE "const")
      /\ call'.op # "handleTextEditorAdded" =>
           \A h \in Handles :
             (listeners[h] # <<>> /\ listeners[h][1].obs = "const") =>
               \A i \in DOMAIN sent' :
                 ~(sent'[i].method = "$acceptEditorDiffInformation" /\ sent'[i].id = h) ]_vars

\* The quick-diff model of an editor changes to one with changes after the editor, added
\* without a code editor, got a code editor: its bundle sends nothing.
C18_Witness ==
  /\ call.op = "dirtyDiffModel.onDidChange"
  /\ call.id \notin diffEditors
  /\ codeEditor[call.id]
  /\ listeners[call.id] # <<>>
  /\ listeners[call.id][1].obs = "const"
  /\ Len(call.arg.quickDiffs) = 2
  /\ Len(call.arg.changes) = 3
  /\ lastSentDiff[call.id] = NoValue
  /\ sent = <<>>

====
